---------------------------- MODULE Spec2Model ----------------------------
(***************************************************************************)
(* A model of the LU single-sign-on auth server: the length-prefixed       *)
(* framing of tcpudp.rs (Connection), the connection pool and event loop   *)
(* of auth.rs (Context, Server) and the message listeners of listeners.rs. *)
(*                                                                         *)
(* SpecFraming drives one Connection, as the tests of tcpudp.rs do: a peer *)
(* writes the bytes of some frames in chunks and receive_raw is called in  *)
(* between.  Spec is the server: peers connect, write frames and go away   *)
(* while Server::run accepts, polls the pool and calls the listeners.      *)
(* SpecPool is one poll pass over a pool of any size up to MaxPool, with   *)
(* a call of Context::broadcast at any moment of it.  SpecLive is Spec     *)
(* with the server thread scheduled.  SpecSend is Connection::send and     *)
(* send_raw on one connection.  SpecTls is the server built with the tls   *)
(* feature, where Transport::from (tls.rs) runs inside the accept loop,    *)
(* and SpecTlsLive schedules its thread.  SpecVerify is the verification   *)
(* endpoint of verify.rs on one request buffer, and SpecSession is the     *)
(* login listener and the verification endpoint on the store they share.   *)
(* SpecCursor is the Context under the loops of iteration(), one step for  *)
(* the check of the outer while and one for each turn of the inner loop,   *)
(* and SpecCursorLive schedules its thread.                                *)
(***************************************************************************)
EXTENDS Integers, Sequences, FiniteSets, TLC

\* Bounds of the model.
MaxPayload == 2     \* longest payload of a frame written by the peer
MaxFrames == 2      \* most frames the peer writes on one stream

MaxPeers == 2       \* peers that ever connect to the server (Spec)
MaxPool == 3        \* most connections in the pool a pass starts with (SpecPool)
MaxMsgs == 2        \* frames the peers of the server write, all together

\* length: [u8; 4] of BufferOffset.
LengthBytes == 4

\* The values a payload byte takes in the model (they include the values
\* the bytes of a length prefix take).
ByteVals == {0, 1}

VARIABLES
    \* ---- one Connection under test (SpecFraming) ----
    packet,     \* Connection.packet: the BufferOffset
    tcp,        \* bytes written by the peer and not yet read from the socket
    wire,       \* all bytes the peer writes on the stream
    sent,       \* how many bytes of wire the peer has written
    frames,     \* the payloads framed in wire, in order
    got,        \* the payloads returned by receive_raw so far
    ret,        \* what the last receive_raw call returned
    carried,    \* some call returned a payload and left bytes in the socket
    \* ---- the server (Spec) ----
    conns,      \* Context.conns: the pool, each entry [id, packet]
    i,          \* Context.i: the cursor
    close_conn, \* Context.close_conn: the pending-close flag
    pc,         \* where Server::run is: accept, poll, advance, sleep, panicked
    backlog,    \* the connections waiting in the listener, oldest first
    sock,       \* per peer: the stream between the peer and the server
    peer,       \* per peer: idle, pending (in the listener), accepted, gone
    nmsgs,      \* how many frames the peers have begun to write
    visited,    \* the connections made active in this pass, in order
    startIds,   \* the connections in the pool when this pass started
    drain,      \* what happened while the active connection was drained
    lastIter,   \* how iteration() has just returned to run(): ok or err
                \* (none once the next iteration is under way)
    owed,       \* the connections that waited when this iteration started,
                \* whose handshake succeeds, and that are not yet accepted
    bcast,      \* the last call of Context::broadcast: its message, the
                \* connections whose writes fail, and its result
    snd,        \* the last call of send / send_raw on a connection (SpecSend)
    tls,        \* the server built with the tls feature (SpecTls)
    http,       \* the verification endpoint: its request and response
    db,         \* the user store shared by the two servers
    login,      \* the login requests the auth server has handled (SpecSession)
    cursor      \* the Context and the position of iteration() (SpecCursor)

framingVars == <<packet, tcp, wire, sent, frames, got, ret, carried>>

serverVars ==
    <<conns, i, close_conn, pc, backlog, sock, peer, nmsgs, visited, startIds,
      drain, lastIter, owed>>

otherVars == <<tls, http, db, login, cursor>>

vars == <<framingVars, serverVars, bcast, snd, otherVars>>

\* Nothing of the tls build, the verification endpoint or the user store is
\* part of the specification.
OtherIdle ==
    tls = <<>> /\ http = <<>> /\ db = <<>> /\ login = <<>> /\ cursor = <<>>

-----------------------------------------------------------------------------
\* Helpers on sequences.

Min(a, b) == IF a < b THEN a ELSE b

Take(s, n) == SubSeq(s, 1, n)

Drop(s, n) == SubSeq(s, n + 1, Len(s))

\* vec![0; n]
Zeros(n) == [k \in 1..n |-> 0]

-----------------------------------------------------------------------------
\* Results of the io calls.

Ok(data) == [kind |-> "ok", err |-> "", data |-> data]

Err(e) == [kind |-> "err", err |-> e, data |-> <<>>]

ReadOk(n) == [kind |-> "ok", err |-> "", n |-> n]

ReadErr(e) == [kind |-> "err", err |-> e, n |-> 0]

\* The outcomes of one tcp.read(buf) on the non-blocking stream, for a buffer
\* of cap > 0 bytes, with the bytes q queued in the socket. link is the state
\* of the stream: "open", "eof" (the peer shut down in order), "reset", or
\* "broken" (any other io error).
TcpRead(q, cap, link) ==
    (IF Len(q) > 0 THEN {ReadOk(n) : n \in 1..Min(Len(q), cap)} ELSE {})
    \cup (CASE link = "open" -> IF Len(q) = 0 THEN {ReadErr("WouldBlock")} ELSE {}
            [] link = "eof" -> IF Len(q) = 0 THEN {ReadOk(0)} ELSE {}
            [] link = "reset" -> {ReadErr("ConnectionReset")}
            [] OTHER -> {ReadErr("Other")})

\* u32::from_le_bytes
from_le_bytes(b) == b[1] + 256 * b[2] + 65536 * b[3] + 16777216 * b[4]

\* u32::to_le_bytes, the length prefix of a frame
to_le_bytes(n) ==
    <<n % 256, (n \div 256) % 256, (n \div 65536) % 256, (n \div 16777216) % 256>>

\* A read of n bytes into buf[off..]: the bytes land behind the off bytes
\* already there.
StoreAtMutant(buf, off, bytes) ==
    [k \in 1..Len(buf) |-> IF k <= Len(bytes) THEN bytes[k] ELSE buf[k]]

StoreAt(buf, off, bytes) ==
    [k \in 1..Len(buf) |->
        IF k > off /\ k <= off + Len(bytes) THEN bytes[k - off] ELSE buf[k]]

\* The state in which receive_raw leaves the BufferOffset when it returns a
\* payload: length mode, offset 0, the buffer swapped for an empty one.
TakeBufferMutant(p) == [p EXCEPT !.offset = 0, !.buffer = <<>>]

TakeBuffer(p) == [p EXCEPT !.reading_length = TRUE, !.offset = 0, !.buffer = <<>>]

\* The switch to body mode once the 4 length bytes are there.
AllocBufferMutant(p) ==
    [p EXCEPT !.reading_length = FALSE, !.buffer = Zeros(from_le_bytes(p.length))]

AllocBuffer(p) ==
    [p EXCEPT !.reading_length = FALSE, !.offset = 0,
              !.buffer = Zeros(from_le_bytes(p.length))]

\* The exit of the first loop of receive_raw: all 4 length bytes are there.
LengthDoneMutant(p) == p.offset > 0

LengthDone(p) == p.offset >= Len(p.length)

\* The BufferOffset of a new Connection.
NewPacket ==
    [reading_length |-> TRUE, offset |-> 0, length |-> Zeros(LengthBytes),
     buffer |-> <<>>]

\* The second loop of receive_raw: fill the body, then return it. The result
\* is the set of the outcomes of the call, one for each way the reads can go.
RECURSIVE FillBody(_, _, _)
FillBody(p, q, link) ==
    IF p.offset < Len(p.buffer)
    THEN UNION {
            IF r.kind = "err"
            THEN {[packet |-> p, tcp |-> q, res |-> Err(r.err)]}
            ELSE IF r.n = 0
            THEN {[packet |-> p, tcp |-> q, res |-> Err("WouldBlock")]}
            ELSE FillBody([p EXCEPT !.buffer = StoreAt(p.buffer, p.offset, Take(q, r.n)),
                                    !.offset = p.offset + r.n],
                          Drop(q, r.n), link)
            : r \in TcpRead(q, Len(p.buffer) - p.offset, link)}
    ELSE {[packet |-> TakeBuffer(p), tcp |-> q, res |-> Ok(p.buffer)]}

\* The first loop of receive_raw: fill the length prefix, then go on with
\* the body in the same call.
RECURSIVE FillLength(_, _, _)
FillLength(p, q, link) ==
    IF ~LengthDone(p)
    THEN UNION {
            IF r.kind = "err"
            THEN {[packet |-> p, tcp |-> q, res |-> Err(r.err)]}
            ELSE IF r.n = 0
            THEN {[packet |-> p, tcp |-> q, res |-> Err("WouldBlock")]}
            ELSE FillLength([p EXCEPT !.length = StoreAt(p.length, p.offset, Take(q, r.n)),
                                      !.offset = p.offset + r.n],
                            Drop(q, r.n), link)
            : r \in TcpRead(q, Len(p.length) - p.offset, link)}
    ELSE FillBody(AllocBuffer(p), q, link)

\* Connection::receive_raw on the BufferOffset p, the socket holding q.
receive_raw(p, q, link) ==
    IF p.reading_length THEN FillLength(p, q, link) ELSE FillBody(p, q, link)

\* One frame on the wire: what send_raw and the tests write for a payload.
Frame(payload) == to_le_bytes(Len(payload)) \o payload

RECURSIVE Concat(_)
Concat(ss) == IF ss = <<>> THEN <<>> ELSE Head(ss) \o Concat(Tail(ss))

\* The wire bytes of a sequence of payloads.
Wire(fs) == Concat([k \in 1..Len(fs) |-> Frame(fs[k])])

\* The offset in the wire at which frame k ends (0 for k = 0).
FrameEnd(fs, k) == Len(Wire(Take(fs, k)))

-----------------------------------------------------------------------------
\* SpecFraming: one Connection and its peer.

\* The payloads the peer frames: the empty one and, for each length up to
\* MaxPayload, the two payloads of alternating bytes.
Payloads ==
    {<<>>} \cup {[j \in 1..n |-> (b + j) % 2] : n \in 1..MaxPayload, b \in ByteVals}

InitFraming ==
    /\ frames \in UNION {[1..k -> Payloads] : k \in 1..MaxFrames}
    /\ wire = Wire(frames)
    /\ sent = 0
    /\ tcp = <<>>
    /\ packet = NewPacket
    /\ got = <<>>
    /\ ret = [kind |-> "none", err |-> "", data |-> <<>>, left |-> 0]
    /\ carried = FALSE
    /\ conns = <<>>
    /\ i = 0
    /\ close_conn = FALSE
    /\ pc = "off"
    /\ backlog = <<>>
    /\ sock = <<>>
    /\ peer = <<>>
    /\ nmsgs = 0
    /\ visited = <<>>
    /\ startIds = {}
    /\ drain = <<>>
    /\ lastIter = "none"
    /\ owed = {}
    /\ bcast = <<>>
    /\ snd = <<>>
    /\ OtherIdle

\* The peer writes the next n bytes of the stream.
PeerWrite ==
    \E n \in 1..(Len(wire) - sent) :
        /\ tcp' = tcp \o SubSeq(wire, sent + 1, sent + n)
        /\ sent' = sent + n
        /\ UNCHANGED <<packet, wire, frames, got, ret, carried>>
        /\ UNCHANGED <<serverVars, bcast, snd, otherVars>>

\* One call of receive_raw.
CallReceiveRaw ==
    \E out \in receive_raw(packet, tcp, "open") :
        /\ packet' = out.packet
        /\ tcp' = out.tcp
        /\ ret' = [kind |-> out.res.kind, err |-> out.res.err,
                   data |-> out.res.data, left |-> Len(out.tcp)]
        /\ got' = IF out.res.kind = "ok" THEN Append(got, out.res.data) ELSE got
        /\ carried' = (carried \/ (out.res.kind = "ok" /\ Len(out.tcp) > 0))
        /\ UNCHANGED <<wire, sent, frames>>
        /\ UNCHANGED <<serverVars, bcast, snd, otherVars>>

NextFraming == PeerWrite \/ CallReceiveRaw

SpecFraming == InitFraming /\ [][NextFraming]_vars

-----------------------------------------------------------------------------
\* The listeners (listeners.rs) and the Context operations they call.

\* What a payload decodes to (Connection::receive reads an IncMessage from
\* the payload). The wire format of the messages is that of lu_packets; the
\* model gives each message the listeners tell apart one byte.
decode(payload) ==
    IF Len(payload) # 1 THEN [ok |-> FALSE, type |-> "", good |-> FALSE]
    ELSE CASE payload[1] = 0 -> [ok |-> TRUE, type |-> "InternalPing", good |-> TRUE]
           [] payload[1] = 1 -> [ok |-> TRUE, type |-> "ConnectionRequest", good |-> TRUE]
           [] payload[1] = 2 -> [ok |-> TRUE, type |-> "ConnectionRequest", good |-> FALSE]
           [] payload[1] = 3 -> [ok |-> TRUE, type |-> "Handshake", good |-> TRUE]
           [] payload[1] = 4 -> [ok |-> TRUE, type |-> "Handshake", good |-> FALSE]
           [] OTHER -> [ok |-> FALSE, type |-> "", good |-> FALSE]

\* The payload bytes the peers of Spec write: a ping, a connection request
\* with the right and with a wrong password, a handshake with the right and
\* with a wrong network version, and bytes that are no message.
MsgBytes == {0, 1, 2, 3, 4, 9}

\* The serialized messages of the server: the replies of the listeners, one
\* byte each in the model, and a longer one.
Serialize(msg) ==
    CASE msg = "ConnectedPong" -> <<10>>
      [] msg = "ConnectionRequestAccepted" -> <<11>>
      [] msg = "Handshake" -> <<12>>
      [] msg = "LoginResponse" -> <<13, 0>>

\* The outcomes of one write call on the stream, n bytes offered: an error,
\* or the number of bytes taken (std::io::Write::write may take fewer than
\* offered). On a stream the peer has shut down (tests_tcp::send_shutdown)
\* or reset every write fails, with the kind ConnectionAborted; a write on
\* another stream may fail too: it would block, or another io error.
TcpWrite(n, link) ==
    IF link = "reset" THEN {ReadErr("ConnectionAborted")}
    ELSE IF n = 0 THEN {ReadOk(0)}
    ELSE {ReadErr(IF link = "broken" THEN "Other" ELSE "WouldBlock")}
         \cup {ReadOk(k) : k \in 1..n}

\* What send_raw returns for the error of a write: the ? passes it on as
\* it is.
PassOnMutant(e) == "WouldBlock"

PassOn(e) == e

\* Connection::send_raw on the stream s: the length prefix is written whole
\* or fails; then one write call for the data, whose count is not looked at.
send_raw(s, data) ==
    UNION {
        IF w1.kind = "err" THEN {[sock |-> s, res |-> "err", err |-> PassOn(w1.err)]}
        ELSE LET s1 == [s EXCEPT !.tx = s.tx \o to_le_bytes(Len(data))]
             IN  {IF w2.kind = "err"
                  THEN [sock |-> s1, res |-> "err", err |-> PassOn(w2.err)]
                  ELSE [sock |-> [s1 EXCEPT !.tx = s1.tx \o Take(data, w2.n)],
                        res |-> "ok", err |-> ""]
                  : w2 \in TcpWrite(Len(data), s.link)}
        : w1 \in {w \in TcpWrite(LengthBytes, s.link) : w.kind = "err" \/ w.n = LengthBytes}}

\* Connection::send / Context::send of a reply on the active connection.
ctx_send(s, msg) == send_raw(s, Serialize(msg))

\* Context::broadcast on the pool cs with the streams sk, from the k-th
\* connection on: send_raw on each in turn, and the first error is returned
\* (the ? of line 54). fails holds the connections whose write fails.
RECURSIVE broadcast_from(_, _, _, _, _)
broadcast_from(cs, sk, data, fails, k) ==
    IF k > Len(cs) THEN {[sock |-> sk, res |-> "ok"]}
    ELSE LET id == cs[k].id
         IN  UNION {
                IF r.res = "err"
                THEN {[sock |-> [sk EXCEPT ![id] = r.sock], res |-> "err"]}
                ELSE broadcast_from(cs, [sk EXCEPT ![id] = r.sock], data, fails, k + 1)
                : r \in {x \in send_raw(sk[id], data) : (x.res = "err") = (id \in fails)}}

\* Context::broadcast: the message is serialized (ser says whether that
\* succeeds) before the loop over the pool.
broadcast(cs, sk, msg, ser, fails) ==
    IF ser = "err" THEN {[sock |-> sk, res |-> "err", serialized |-> 1]}
    ELSE {[sock |-> r.sock, res |-> r.res, serialized |-> 1]
          : r \in broadcast_from(cs, sk, Serialize(msg), fails, 1)}

\* Context::close_conn
ctx_close_connMutant(cl) == ~cl

ctx_close_conn(cl) == TRUE

\* Context::peer_addr / local_addr: on a stream the peer has reset the
\* address lookup can fail.
ctx_addr(s) == IF s.link = "reset" THEN {"ok", "err"} ELSE {"ok"}

\* What a listener did: the stream of the active connection, the flag, whether
\* it panicked (an unwrap of an Err), and how often it called close_conn and
\* send.
Effect(s, cl, panic, closes, sends) ==
    [sock |-> s, close_conn |-> cl, panic |-> panic, closes |-> closes,
     sends |-> sends]

\* A listener that sends one reply and unwraps the result.
SendUnwrap(s, cl, msg) ==
    {Effect(r.sock, cl, r.res = "err", 0, 1) : r \in ctx_send(s, msg)}

on_internal_ping(s, cl) == SendUnwrap(s, cl, "ConnectedPong")

on_conn_req(m, s, cl) ==
    IF ~m.good THEN {Effect(s, ctx_close_conn(cl), FALSE, 1, 0)}
    ELSE UNION {IF a = "err" THEN {Effect(s, cl, TRUE, 0, 0)}
                ELSE SendUnwrap(s, cl, "ConnectionRequestAccepted")
                : a \in ctx_addr(s)}

on_handshake(m, s, cl) ==
    IF ~m.good THEN {Effect(s, ctx_close_conn(cl), FALSE, 1, 0)}
    ELSE SendUnwrap(s, cl, "Handshake")

\* MsgCallback::on_msg
on_msg(m, s, cl) ==
    CASE m.type = "InternalPing" -> on_internal_ping(s, cl)
      [] m.type = "ConnectionRequest" -> on_conn_req(m, s, cl)
      [] m.type = "Handshake" -> on_handshake(m, s, cl)

-----------------------------------------------------------------------------
\* The Context (auth.rs).

Ids(cs) == {cs[k].id : k \in 1..Len(cs)}

\* Vec::swap_remove(k), k counted from 0.
swap_removeMutant(cs, k) == cs

swap_remove(cs, k) ==
    [j \in 1..(Len(cs) - 1) |-> IF j = k + 1 THEN cs[Len(cs)] ELSE cs[j]]

\* Context::can_advance
can_advanceMutant(cs, k) == k <= Len(cs)

can_advance(cs, k) == k < Len(cs)

\* Context::advance
advanceMutant(cs, k, cl) ==
    IF cl THEN [conns |-> swap_remove(cs, k), i |-> k + 1, close_conn |-> FALSE]
    ELSE [conns |-> cs, i |-> k + 1, close_conn |-> cl]

advanceKeepsFlag(cs, k, cl) ==
    IF cl THEN [conns |-> swap_remove(cs, k), i |-> k, close_conn |-> cl]
    ELSE [conns |-> cs, i |-> k + 1, close_conn |-> cl]

advance(cs, k, cl) ==
    IF cl THEN [conns |-> swap_remove(cs, k), i |-> k, close_conn |-> FALSE]
    ELSE [conns |-> cs, i |-> k + 1, close_conn |-> cl]

\* The connections of a listener queue whose handshake succeeds.
Owed(bl) == {bl[k].id : k \in {j \in 1..Len(bl) : bl[j].tls = "ok"}}

\* Context::get: the active connection.
Active == conns[i + 1]

\* The match on the result of receive(): Err breaks the inner loop, Ok(msg)
\* calls the callback and goes round.
LoopBreaksMutant(ok) == TRUE

LoopBreaks(ok) == ~ok

\* What the loop of iteration() does with an error of receive().
IsHardErrorMutant(e) == TRUE

IsHardError(e) == e # "WouldBlock"

IsLoggedMutant(e) == e # "WouldBlock"

IsLogged(e) == IsHardError(e) /\ e # "ConnectionReset"

-----------------------------------------------------------------------------
\* Spec: the server and its peers.

\* The streams: MaxPeers of them connect in Spec, and a pass of SpecPool
\* starts with up to MaxPool of them in the pool (MaxPeers <= MaxPool).
Peers == 1..MaxPool

\* No call of send yet.
NoSend == [api |-> "none", data |-> <<>>, res |-> "none", err |-> "", link |-> ""]

\* No call of broadcast yet.
NoBcast == [ser |-> "none", data |-> <<>>, fails |-> {}, res |-> "none",
            serialized |-> 0]

\* Nothing has happened yet in the drain of the active connection: closes
\* counts the close_conn calls (of the listeners and of the loop), sentClosed
\* says that a
\* reply was sent after a close_conn, recv is the error that ended the drain,
\* logged whether dbg! printed it, and last is the payload of the message
\* the callback was called with last.
NoDrain ==
    [closes |-> 0, sentClosed |-> FALSE, recv |-> "none", logged |-> FALSE,
     last |-> <<>>]

\* A stream: rx holds the bytes the peer has written and the server has not
\* read, tx the bytes the server has written since its last receive() on the
\* stream (the peer has read what was written before), link the state of
\* the stream.
\* NoSock is a stream nobody has written on, and what is left of the stream
\* of a connection the server has dropped.
NoSock == [rx |-> <<>>, tx |-> <<>>, link |-> "open"]

Init ==
    /\ conns = <<>>
    /\ i = 0
    /\ close_conn = FALSE
    /\ pc = "accept"
    /\ backlog = <<>>
    /\ sock = [id \in Peers |-> NoSock]
    /\ peer = [id \in Peers |-> "idle"]
    /\ nmsgs = 0
    /\ visited = <<>>
    /\ startIds = {}
    /\ drain = NoDrain
    /\ lastIter = "none"
    /\ owed = {}
    /\ bcast = NoBcast
    /\ snd = NoSend
    /\ OtherIdle
    /\ packet = NewPacket
    /\ tcp = <<>>
    /\ wire = <<>>
    /\ sent = 0
    /\ frames = <<>>
    /\ got = <<>>
    /\ ret = [kind |-> "none", err |-> "", data |-> <<>>, left |-> 0]
    /\ carried = FALSE

\* The server sees a peer only through its own calls: accept() on the
\* listener and read and write on the stream of the active connection. What
\* a peer does at another time reaches the server as if done right before
\* the call that sees it, so the peers act at these moments: they connect
\* while the server sleeps or accepts, and they write or go away while
\* their connection is the active one.

\* A peer connects: it waits in the listener. t is how its TLS handshake
\* (Transport::from) will go.
PeerConnect ==
    \E id \in 1..MaxPeers, t \in {"ok", "bad"} :
        /\ pc \in {"accept", "sleep"}
        /\ peer[id] = "idle"
        /\ \A j \in 1..MaxPeers : j < id => peer[j] # "idle"
        /\ peer' = [peer EXCEPT ![id] = "pending"]
        /\ backlog' = Append(backlog, [id |-> id, tls |-> t])
        /\ UNCHANGED <<conns, i, close_conn, pc, sock, nmsgs, visited, startIds,
                       drain, lastIter, owed>>
        /\ UNCHANGED <<framingVars, bcast, snd, otherVars>>

\* A connected peer writes a frame. The frames of the peers of Spec have a
\* payload of 1 byte and arrive whole, and a peer writes a frame when the
\* server has read the one before (SpecFraming has the streams that hold a
\* part of a frame or more than one frame).
PeerSend ==
    \E id \in Peers :
        /\ pc = "poll" /\ can_advance(conns, i) /\ id = Active.id
        /\ sock[id].link = "open"
        /\ sock[id].rx = <<>>
        /\ nmsgs < MaxMsgs
        /\ nmsgs' = nmsgs + 1
        /\ \E b \in MsgBytes : sock' = [sock EXCEPT ![id].rx = @ \o Frame(<<b>>)]
        /\ UNCHANGED <<conns, i, close_conn, pc, backlog, peer, visited, startIds,
                       drain, lastIter, owed>>
        /\ UNCHANGED <<framingVars, bcast, snd, otherVars>>

\* A connected peer goes away: it shuts down in order, resets the
\* connection, or breaks the stream (any other io error at the server).
PeerClose ==
    \E id \in Peers, how \in {"eof", "reset", "broken"} :
        /\ pc = "poll" /\ can_advance(conns, i) /\ id = Active.id
        /\ sock[id].link = "open"
        /\ sock' = [sock EXCEPT ![id].link = how]
        /\ UNCHANGED <<conns, i, close_conn, pc, backlog, peer, nmsgs, visited,
                       startIds, drain, lastIter, owed>>
        /\ UNCHANGED <<framingVars, bcast, snd, otherVars>>

\* Server::iteration, the accept loop: accept() returned a stream.
\* Transport::from and Connection::from succeed and the connection is
\* pushed, or one of them fails and iteration() returns the error: run()
\* prints it and starts the next iteration.
AcceptOne ==
    /\ pc = "accept"
    /\ backlog # <<>>
    /\ LET id == Head(backlog).id
       IN  IF Head(backlog).tls = "ok"
           THEN /\ conns' = Append(conns, [id |-> id, packet |-> NewPacket])
                /\ peer' = [peer EXCEPT ![id] = "accepted"]
                /\ owed' = owed \ {id}
                /\ lastIter' = "none"
           ELSE /\ peer' = [peer EXCEPT ![id] = "gone"]
                /\ lastIter' = "err"
                /\ owed' = Owed(Tail(backlog))
                /\ UNCHANGED conns
    /\ backlog' = Tail(backlog)
    /\ UNCHANGED <<i, close_conn, pc, sock, nmsgs, visited, startIds, drain>>
    /\ UNCHANGED <<framingVars, bcast, snd, otherVars>>

\* Context::reset and the first connection of the pass made active.
StartPass ==
    /\ i' = 0
    /\ pc' = "poll"
    /\ startIds' = Ids(conns')
    /\ visited' = IF can_advance(conns', 0) THEN <<conns'[1].id>> ELSE <<>>
    /\ drain' = NoDrain

\* The accept loop ends: accept() returned an error. With nobody waiting it
\* is would-block; any other error of accept (the connection at the head of
\* the queue is lost) ends the loop all the same.
AcceptEnd ==
    /\ pc = "accept"
    /\ \/ /\ backlog = <<>>
          /\ UNCHANGED <<backlog, peer>>
       \/ /\ backlog # <<>>
          /\ backlog' = Tail(backlog)
          /\ peer' = [peer EXCEPT ![Head(backlog).id] = "gone"]
    /\ UNCHANGED conns
    /\ StartPass
    /\ lastIter' = "none"
    /\ UNCHANGED <<close_conn, sock, nmsgs, owed>>
    /\ UNCHANGED <<framingVars, bcast, snd, otherVars>>

\* A listener panics (it unwraps an Err) on the thread of main, which runs
\* the server: the process ends, and with it the pool and every connection.
Panic ==
    /\ pc' = "panicked"
    /\ conns' = <<>>
    /\ i' = 0
    /\ close_conn' = FALSE
    /\ backlog' = <<>>
    /\ sock' = [id \in Peers |-> NoSock]
    /\ peer' = [id \in Peers |-> "gone"]
    /\ nmsgs' = MaxMsgs
    /\ visited' = <<>>
    /\ startIds' = {}
    /\ drain' = NoDrain
    /\ lastIter' = "none"
    /\ owed' = {}

\* One turn of the inner loop of iteration(): receive() on the active
\* connection, then the callback on the message, or the break on an error.
Receive ==
    /\ pc = "poll"
    /\ can_advance(conns, i)
    /\ LET id == Active.id
       IN  \E out \in receive_raw(Active.packet, sock[id].rx, sock[id].link) :
            LET s1 == [sock[id] EXCEPT !.rx = out.tcp, !.tx = <<>>]
                m == decode(out.res.data)
                e == IF out.res.kind = "err" THEN out.res.err ELSE "InvalidData"
            IN  IF out.res.kind = "ok" /\ m.ok
                THEN \E eff \in on_msg(m, s1, close_conn) :
                        IF eff.panic THEN Panic
                        ELSE /\ conns' = [conns EXCEPT ![i + 1].packet = out.packet]
                             /\ sock' = [sock EXCEPT ![id] = eff.sock]
                             /\ close_conn' = eff.close_conn
                             /\ pc' = IF LoopBreaks(TRUE) THEN "advance" ELSE "poll"
                             /\ drain' = [drain EXCEPT
                                            !.last = out.res.data,
                                            !.closes = @ + eff.closes,
                                            !.sentClosed = @ \/ (close_conn /\ eff.sends > 0)]
                             /\ UNCHANGED <<i, backlog, peer, nmsgs, visited, startIds,
                                            lastIter, owed>>
                ELSE    /\ conns' = [conns EXCEPT ![i + 1].packet = out.packet]
                        /\ sock' = [sock EXCEPT ![id] = s1]
                        /\ close_conn' = IF IsHardError(e) THEN ctx_close_conn(close_conn)
                                         ELSE close_conn
                        /\ pc' = IF LoopBreaks(FALSE) THEN "advance" ELSE "poll"
                        /\ drain' = [drain EXCEPT
                                        !.recv = e, !.logged = IsLogged(e),
                                        !.closes = @ + (IF IsHardError(e) THEN 1 ELSE 0)]
                        /\ UNCHANGED <<i, backlog, peer, nmsgs, visited, startIds,
                                       lastIter, owed>>
    /\ UNCHANGED <<framingVars, bcast, snd, otherVars>>

\* Context::advance after the inner loop.
Advance ==
    /\ pc = "advance"
    /\ LET c == advance(conns, i, close_conn)
       IN  /\ conns' = c.conns
           /\ i' = c.i
           /\ close_conn' = c.close_conn
           /\ visited' = IF can_advance(c.conns, c.i)
                         THEN Append(visited, c.conns[c.i + 1].id) ELSE visited
           /\ peer' = [id \in Peers |->
                        IF peer[id] = "accepted" /\ id \notin Ids(c.conns)
                        THEN "gone" ELSE peer[id]]
           /\ sock' = [id \in Peers |->
                        IF id \notin Ids(c.conns) THEN NoSock
                        ELSE [sock[id] EXCEPT !.tx = <<>>]]
    /\ pc' = "poll"
    /\ drain' = NoDrain
    /\ UNCHANGED <<backlog, nmsgs, startIds, lastIter, owed>>
    /\ UNCHANGED <<framingVars, bcast, snd, otherVars>>

\* The pass is over: can_advance is false.
EndPass ==
    /\ pc = "poll"
    /\ ~can_advance(conns, i)
    /\ pc' = "sleep"
    /\ UNCHANGED <<conns, i, close_conn, backlog, sock, peer, nmsgs, visited,
                   startIds, drain, lastIter, owed>>
    /\ UNCHANGED <<framingVars, bcast, snd, otherVars>>

\* The sleep of 30 ms; iteration() returns Ok and run() starts the next one.
Sleep ==
    /\ pc = "sleep"
    /\ pc' = "accept"
    /\ lastIter' = "ok"
    /\ owed' = Owed(backlog)
    /\ visited' = <<>>
    /\ startIds' = {}
    /\ UNCHANGED <<conns, i, close_conn, backlog, sock, peer, nmsgs, drain>>
    /\ UNCHANGED <<framingVars, bcast, snd, otherVars>>

Next ==
    \/ PeerConnect
    \/ PeerSend
    \/ PeerClose
    \/ AcceptOne
    \/ AcceptEnd
    \/ Receive
    \/ Advance
    \/ EndPass
    \/ Sleep

Spec == Init /\ [][Next]_vars

\* The thread of Server::run is scheduled: whenever the server has a step
\* to take (it always has one until a listener panics) it takes one. The
\* peers are not bound to do anything. For the turns of the inner loop
\* (Receive, which has a step whenever a connection is active) this is
\* said of the states: the server does not stay in one drain for ever.
LoopStep ==
    AcceptOne \/ AcceptEnd \/ Advance \/ EndPass \/ Sleep

InDrain == pc = "poll" /\ can_advance(conns, i)

SpecLive == Init /\ [][Next]_vars /\ WF_vars(LoopStep) /\ []<>(~InDrain)

-----------------------------------------------------------------------------
\* SpecPool: one pass of the poll loop over a pool, and a call of broadcast.

\* What a peer of SpecPool has written when the pass starts: nothing, a
\* connection request with a wrong password, a ping and then a handshake,
\* or bytes that are no message and then a ping.
PoolStreams ==
    {<<>>, Frame(<<2>>), Frame(<<0>>) \o Frame(<<3>>), Frame(<<9>>) \o Frame(<<0>>)}

\* The pass starts (Context::reset is done) with n connections in the pool.
\* Each peer has reset its connection or not, and has written one of the
\* streams of PoolStreams.
InitPool ==
    \E n \in 0..MaxPool :
        /\ conns = [k \in 1..n |-> [id |-> k, packet |-> NewPacket]]
        /\ sock \in {f \in [Peers -> [rx : PoolStreams, tx : {<<>>},
                                      link : {"open", "reset"}]] :
                        \A id \in Peers : id > n => f[id] = NoSock}
        /\ peer = [id \in Peers |-> IF id <= n THEN "accepted" ELSE "idle"]
        /\ i = 0
        /\ close_conn = FALSE
        /\ pc = "poll"
        /\ backlog = <<>>
        /\ nmsgs = 0
        /\ startIds = 1..n
        /\ visited = IF n > 0 THEN <<1>> ELSE <<>>
        /\ drain = NoDrain
        /\ lastIter = "none"
        /\ owed = {}
        /\ bcast = NoBcast
        /\ snd = NoSend
        /\ OtherIdle
        /\ packet = NewPacket
        /\ tcp = <<>>
        /\ wire = <<>>
        /\ sent = 0
        /\ frames = <<>>
        /\ got = <<>>
        /\ ret = [kind |-> "none", err |-> "", data |-> <<>>, left |-> 0]
        /\ carried = FALSE

\* Context::broadcast is called during the pass. The message serializes or
\* not, and fails are the connections whose write fails (those the peer
\* has reset among them). The run is followed up to the return of broadcast.
Broadcast ==
    /\ pc = "poll"
    /\ \E msg \in {"ConnectedPong", "LoginResponse"}, ser \in {"ok", "err"},
          fails \in SUBSET Ids(conns) :
            \E out \in broadcast(conns, sock, msg, ser, fails) :
                /\ sock' = out.sock
                /\ bcast' = [ser |-> ser, data |-> Serialize(msg), fails |-> fails,
                             res |-> out.res, serialized |-> out.serialized]
    /\ pc' = "done"
    /\ UNCHANGED <<conns, i, close_conn, backlog, peer, nmsgs, visited, startIds,
                   drain, lastIter, owed, snd, otherVars>>
    /\ UNCHANGED framingVars

NextPool ==
    \/ Receive
    \/ Advance
    \/ EndPass
    \/ Broadcast

SpecPool == InitPool /\ [][NextPool]_vars

-----------------------------------------------------------------------------
\* SpecSend: the calls of send on one connection, as in tests_tcp::send_ok
\* and send_shutdown.

\* The messages the server sends.
OutMessages ==
    {"ConnectedPong", "ConnectionRequestAccepted", "Handshake", "LoginResponse"}

\* One connection is in the pool and is the active one; nothing has been
\* written on its stream.
InitSend ==
    /\ conns = <<[id |-> 1, packet |-> NewPacket]>>
    /\ sock = [id \in Peers |-> NoSock]
    /\ peer = [id \in Peers |-> IF id = 1 THEN "accepted" ELSE "idle"]
    /\ i = 0
    /\ close_conn = FALSE
    /\ pc = "poll"
    /\ backlog = <<>>
    /\ nmsgs = 0
    /\ startIds = {1}
    /\ visited = <<1>>
    /\ drain = NoDrain
    /\ lastIter = "none"
    /\ owed = {}
    /\ bcast = NoBcast
    /\ snd = NoSend
    /\ OtherIdle
    /\ packet = NewPacket
    /\ tcp = <<>>
    /\ wire = <<>>
    /\ sent = 0
    /\ frames = <<>>
    /\ got = <<>>
    /\ ret = [kind |-> "none", err |-> "", data |-> <<>>, left |-> 0]
    /\ carried = FALSE

\* Connection::send_raw with some bytes, or Context::send with a message, on
\* the active connection, once the peer has read what was written before.
SendCall ==
    /\ InDrain
    /\ sock[Active.id].tx = <<>>
    /\ LET id == Active.id
       IN  \/ \E data \in Payloads : \E out \in send_raw(sock[id], data) :
                /\ sock' = [sock EXCEPT ![id] = out.sock]
                /\ snd' = [api |-> "send_raw", data |-> data, res |-> out.res,
                           err |-> out.err, link |-> sock[id].link]
           \/ \E msg \in OutMessages : \E out \in ctx_send(sock[id], msg) :
                /\ sock' = [sock EXCEPT ![id] = out.sock]
                /\ snd' = [api |-> "send", data |-> Serialize(msg), res |-> out.res,
                           err |-> out.err, link |-> sock[id].link]
    /\ UNCHANGED <<conns, i, close_conn, pc, backlog, peer, nmsgs, visited, startIds,
                   drain, lastIter, owed, bcast, otherVars>>
    /\ UNCHANGED framingVars

\* The peer reads what the server has written.
PeerRead ==
    /\ InDrain
    /\ sock[Active.id].tx # <<>>
    /\ sock' = [sock EXCEPT ![Active.id].tx = <<>>]
    /\ UNCHANGED <<conns, i, close_conn, pc, backlog, peer, nmsgs, visited, startIds,
                   drain, lastIter, owed, bcast, snd, otherVars>>
    /\ UNCHANGED framingVars

NextSend ==
    \/ PeerClose
    \/ SendCall
    \/ PeerRead

SpecSend == InitSend /\ [][NextSend]_vars

-----------------------------------------------------------------------------
\* SpecTls: the server built with the tls feature. A stream that accept()
\* returns goes through Transport::from, which completes the TLS handshake,
\* before Connection::from wraps it and it is pushed to the pool.

MaxTlsPeers == 2    \* peers that ever connect to the server (SpecTls)
MaxTlsWrites == 3   \* records the peers write, all together (SpecTls)

TlsPeers == 1..MaxTlsPeers

\* What a peer writes on its stream: a flight of its handshake, or a record
\* of application data.
TlsRecords == {"flight", "data"}

\* rustls::ServerSession::new: the session waits for the first flight of
\* the client. After the second flight it carries application data.
NewSession == "hello"

NextSess(sess) == IF sess = "hello" THEN "finished" ELSE "traffic"

is_handshaking(sess) == sess # "traffic"

\* Session::complete_io on a handshaking session: reads and processes
\* records until the handshake is complete. A record that is no handshake
\* flight is an error of the session, an empty socket is WouldBlock and an
\* empty socket at the end of the stream is UnexpectedEof.
RECURSIVE complete_io(_)
complete_io(p) ==
    IF p.rx = <<>>
    THEN [peer |-> p, res |-> IF p.link = "eof" THEN "UnexpectedEof" ELSE "WouldBlock"]
    ELSE IF Head(p.rx) # "flight"
    THEN [peer |-> [p EXCEPT !.rx = Tail(p.rx)], res |-> "InvalidData"]
    ELSE LET q == [p EXCEPT !.rx = Tail(p.rx), !.sess = NextSess(p.sess)]
         IN  IF is_handshaking(q.sess) THEN complete_io(q)
             ELSE [peer |-> q, res |-> "Ok"]

\* if e.kind() != WouldBlock { return Err(e); }: the errors after which
\* the loop of Transport::from sleeps and calls complete_io again.
RetriesMutant(kind) == FALSE

Retries(kind) == kind = "WouldBlock"

\* The poll pass on one pooled connection: the records of application data
\* at the head of the stream are dispatched; the connection is closed on a
\* record that is none, and at the end of the stream.
RECURSIVE TlsDrain(_)
TlsDrain(p) ==
    IF p.rx = <<>>
    THEN IF p.link = "eof" THEN [p EXCEPT !.st = "closed"] ELSE p
    ELSE IF Head(p.rx) # "data" THEN [p EXCEPT !.rx = Tail(p.rx), !.st = "closed"]
    ELSE TlsDrain([p EXCEPT !.rx = Tail(p.rx), !.got = p.got + 1])

InitTls ==
    /\ tls = [pc |-> "accept", cur |-> 0, backlog |-> <<>>, conns |-> <<>>,
              peer |-> [p \in TlsPeers |->
                            [st |-> "idle", sess |-> NewSession, rx |-> <<>>,
                             link |-> "open", got |-> 0, retried |-> FALSE]],
              wrote |-> 0, last |-> "none",
              res |-> [peer |-> 0, kind |-> "none", err |-> ""]]
    /\ http = <<>>
    /\ db = <<>>
    /\ login = <<>>
    /\ cursor = <<>>
    /\ bcast = <<>>
    /\ snd = <<>>
    /\ conns = <<>>
    /\ i = 0
    /\ close_conn = FALSE
    /\ pc = "tls"
    /\ backlog = <<>>
    /\ sock = <<>>
    /\ peer = <<>>
    /\ nmsgs = 0
    /\ visited = <<>>
    /\ startIds = {}
    /\ drain = <<>>
    /\ lastIter = "none"
    /\ owed = {}
    /\ packet = NewPacket
    /\ tcp = <<>>
    /\ wire = <<>>
    /\ sent = 0
    /\ frames = <<>>
    /\ got = <<>>
    /\ ret = [kind |-> "none", err |-> "", data |-> <<>>, left |-> 0]
    /\ carried = FALSE

TlsUnchanged ==
    UNCHANGED <<framingVars, serverVars, bcast, snd, http, db, login, cursor>>

\* A peer connects: its stream waits in the listener.
TlsPeerConnect ==
    \E p \in TlsPeers :
        /\ tls.peer[p].st = "idle"
        /\ tls' = [tls EXCEPT !.peer[p].st = "queued",
                              !.backlog = Append(tls.backlog, p)]
        /\ TlsUnchanged

\* A peer writes a record on its stream.
TlsPeerWrite ==
    \E p \in TlsPeers, r \in TlsRecords :
        /\ tls.peer[p].st \in {"queued", "handshaking", "pooled"}
        /\ tls.peer[p].link = "open"
        /\ tls.wrote < MaxTlsWrites
        /\ tls' = [tls EXCEPT !.peer[p].rx = Append(tls.peer[p].rx, r),
                              !.wrote = tls.wrote + 1]
        /\ TlsUnchanged

\* A peer closes its stream.
TlsPeerClose ==
    \E p \in TlsPeers :
        /\ tls.peer[p].st \in {"queued", "handshaking", "pooled"}
        /\ tls.peer[p].link = "open"
        /\ tls' = [tls EXCEPT !.peer[p].link = "eof"]
        /\ TlsUnchanged

\* while let Ok((stream, _addr)) = self.listener.accept(): the oldest
\* waiting stream is given to Transport::from; with none waiting the accept
\* loop ends and the poll pass starts.
TlsAccept ==
    /\ tls.pc = "accept"
    /\ IF tls.backlog = <<>>
       THEN tls' = [tls EXCEPT !.pc = "poll"]
       ELSE LET p == Head(tls.backlog)
            IN  tls' = [tls EXCEPT !.pc = "handshake", !.cur = p,
                                   !.backlog = Tail(tls.backlog),
                                   !.peer[p].st = "handshaking",
                                   !.peer[p].sess = NewSession,
                                   !.last = "none"]
    /\ TlsUnchanged

\* One round of the loop of Transport::from. With the handshake complete
\* the Transport is returned, wrapped and pushed; a complete_io error that
\* is not retried is returned by Transport::from and, through `?`, by
\* iteration(); otherwise the thread sleeps.
TlsHandshake ==
    /\ tls.pc = "handshake"
    /\ LET p == tls.cur
           out == IF is_handshaking(tls.peer[p].sess) THEN complete_io(tls.peer[p])
                  ELSE [peer |-> tls.peer[p], res |-> "Ok"]
       IN  IF out.res = "Ok"
           THEN IF is_handshaking(out.peer.sess)
                THEN tls' = [tls EXCEPT !.peer[p] = out.peer, !.last = out.res]
                ELSE tls' = [tls EXCEPT !.pc = "accept", !.cur = 0, !.last = out.res,
                                        !.peer[p] = [out.peer EXCEPT !.st = "pooled"],
                                        !.conns = Append(tls.conns, p),
                                        !.res = [peer |-> p, kind |-> "Ok", err |-> ""]]
           ELSE IF Retries(out.res)
           THEN tls' = [tls EXCEPT !.pc = "nap", !.last = out.res,
                                   !.peer[p] = [out.peer EXCEPT !.retried = TRUE]]
           ELSE tls' = [tls EXCEPT !.pc = "accept", !.cur = 0, !.last = out.res,
                                   !.peer[p] = [out.peer EXCEPT !.st = "failed"],
                                   !.res = [peer |-> p, kind |-> "Err", err |-> out.res]]
    /\ TlsUnchanged

\* std::thread::sleep(30 ms) inside the loop of Transport::from ends.
TlsNap ==
    /\ tls.pc = "nap"
    /\ tls' = [tls EXCEPT !.pc = "handshake"]
    /\ TlsUnchanged

\* The poll pass: every pooled connection is drained, the closed ones are
\* removed from the pool.
TlsPoll ==
    /\ tls.pc = "poll"
    /\ LET after == [p \in TlsPeers |->
                        IF tls.peer[p].st = "pooled" THEN TlsDrain(tls.peer[p])
                        ELSE tls.peer[p]]
       IN  tls' = [tls EXCEPT !.pc = "sleep", !.peer = after,
                              !.conns = SelectSeq(tls.conns,
                                            LAMBDA p : after[p].st = "pooled")]
    /\ TlsUnchanged

\* The sleep that ends iteration(); run() starts the next one.
TlsSleep ==
    /\ tls.pc = "sleep"
    /\ tls' = [tls EXCEPT !.pc = "accept"]
    /\ TlsUnchanged

\* The steps of the server thread.
TlsServer ==
    \/ TlsAccept
    \/ TlsHandshake
    \/ TlsNap
    \/ TlsPoll
    \/ TlsSleep

NextTls ==
    \/ TlsPeerConnect
    \/ TlsPeerWrite
    \/ TlsPeerClose
    \/ TlsServer

SpecTls == InitTls /\ [][NextTls]_vars

\* The server thread is scheduled: it is the only thread of the auth
\* server, and none of its steps waits for anything but time.
SpecTlsLive == InitTls /\ [][NextTls]_vars /\ WF_vars(TlsServer)

-----------------------------------------------------------------------------
\* SpecVerify: the verification endpoint (verify.rs) on one request buffer.
\* Bytes are one-character strings; LF, CR and NUL stand for the bytes 10,
\* 13 and 0.

MaxSegs == 3        \* most segments of the path of a request (SpecVerify)

GET == <<"G", "E", "T">>

POST == <<"P", "O", "S", "T">>

\* b"HTTP/1.1\r"
VERSION == <<"H", "T", "T", "P", "/", "1", ".", "1", "CR">>

\* b"verify"
VERIFY == <<"v", "e", "r", "i", "f", "y">>

\* The user names and the session keys of the model, as text.
UserNames == {<<"u">>, <<"v">>}

\* slice::split: the pieces of s between the bytes sep; a piece can be
\* empty, and an empty slice has one empty piece.
RECURSIVE split(_, _)
split(s, sep) ==
    IF \A k \in 1..Len(s) : s[k] # sep THEN <<s>>
    ELSE LET k == CHOOSE k \in 1..Len(s) :
                    s[k] = sep /\ \A j \in 1..(k - 1) : s[j] # sep
         IN  <<Take(s, k - 1)>> \o split(Drop(s, k), sep)

\* The pieces joined again, with sep in between.
RECURSIVE join(_, _)
join(ps, sep) ==
    IF ps = <<>> THEN <<>>
    ELSE IF Len(ps) = 1 THEN ps[1]
    ELSE ps[1] \o <<sep>> \o join(Tail(ps), sep)

\* path[1..] with an empty path: the index is out of range and the thread
\* panics.
SliceFrom1(path) ==
    IF Len(path) < 1 THEN [ok |-> FALSE, rest |-> <<>>]
    ELSE [ok |-> TRUE, rest |-> Drop(path, 1)]

\* verify::parse: Some((username, sess_key)), None, or a panic.
parse(buffer) ==
    LET first_line == split(buffer, "LF")[1]
        parts == split(first_line, "SP")
        none == [kind |-> "None", username |-> <<>>, sess_key |-> <<>>]
    IN  IF parts[1] # GET THEN none
        ELSE IF Len(parts) < 2 THEN none
        ELSE IF Len(parts) < 3 \/ parts[3] # VERSION THEN none
        ELSE LET sl == SliceFrom1(parts[2])
                 path_parts == split(sl.rest, "/")
             IN  IF ~sl.ok THEN [none EXCEPT !.kind = "panic"]
                 ELSE IF path_parts[1] # VERIFY THEN none
                 ELSE IF Len(path_parts) < 3 THEN none
                 ELSE [kind |-> "Some", username |-> path_parts[2],
                       sess_key |-> path_parts[3]]

\* verify::verify: whether a row with this user name and this session key
\* exists, or None if the lookup fails.
verify(provided_username, provided_sess_key, store) ==
    IF ~store.up THEN "None"
    ELSE IF \E name \in DOMAIN store.rows :
                /\ name = provided_username
                /\ store.rows[name].session_key = provided_sess_key
    THEN "Some(true)" ELSE "Some(false)"

\* verify::respond: the response written to the stream; a panic of parse
\* leaves the stream without one.
respond(buffer, store) ==
    LET p == parse(buffer)
    IN  IF p.kind = "panic" THEN "panic"
        ELSE IF p.kind = "None" THEN "HTTP/1.1 400"
        ELSE LET v == verify(p.username, p.sess_key, store)
             IN  CASE v = "Some(true)" -> "HTTP/1.1 200 1"
                   [] v = "Some(false)" -> "HTTP/1.1 200 0"
                   [] v = "None" -> "HTTP/1.1 500"

\* The sequences over S of length at most n.
RECURSIVE SeqsUpTo(_, _)
SeqsUpTo(S, n) ==
    IF n = 0 THEN {<<>>}
    ELSE LET shorter == SeqsUpTo(S, n - 1)
         IN  shorter \cup {Append(q, x) : q \in shorter, x \in S}

\* The paths of the requests: segments joined by "/", after a "/", after
\* another byte, or after nothing.
Segs == {VERIFY, <<"u">>, <<"k">>, <<>>}

Paths ==
    {lead \o join(q, "/") : lead \in {<<>>, <<"/">>, <<"x">>},
                            q \in SeqsUpTo(Segs, MaxSegs)}

\* The first lines: a method alone, with a path, with a version behind it
\* (the second one lacks the CR), and with one more part.
FirstLines ==
    {m : m \in {GET, POST}}
    \cup {join(<<m, p>>, "SP") : m \in {GET, POST}, p \in Paths}
    \cup {join(<<m, p, v>>, "SP") :
            m \in {GET, POST}, p \in Paths, v \in {VERSION, Take(VERSION, 8)}}
    \cup {join(<<m, p, VERSION, <<"x">>>>, "SP") : m \in {GET, POST}, p \in Paths}

\* let mut buffer = [0; 512]; stream.read(&mut buffer): the request, with
\* or without the end of its first line, and the zeroes behind it.
Buffers == {l \o t \o <<"NUL">> : l \in FirstLines, t \in {<<>>, <<"LF">>}}

\* The user store: the rows of the table users that matter here, and
\* whether a query on it succeeds.
Stores ==
    {[rows |-> [name \in {<<"u">>} |-> [password |-> "pw", session_key |-> key]],
      up |-> up] : key \in {<<"k">>, <<"j">>}, up \in BOOLEAN}

InitVerify ==
    /\ http \in {[buffer |-> b, response |-> "none"] : b \in Buffers}
    /\ db \in Stores
    /\ login = <<>>
    /\ cursor = <<>>
    /\ tls = <<>>
    /\ bcast = <<>>
    /\ snd = <<>>
    /\ conns = <<>>
    /\ i = 0
    /\ close_conn = FALSE
    /\ pc = "verify"
    /\ backlog = <<>>
    /\ sock = <<>>
    /\ peer = <<>>
    /\ nmsgs = 0
    /\ visited = <<>>
    /\ startIds = {}
    /\ drain = <<>>
    /\ lastIter = "none"
    /\ owed = {}
    /\ packet = NewPacket
    /\ tcp = <<>>
    /\ wire = <<>>
    /\ sent = 0
    /\ frames = <<>>
    /\ got = <<>>
    /\ ret = [kind |-> "none", err |-> "", data |-> <<>>, left |-> 0]
    /\ carried = FALSE

\* verify::handle on the buffer read: stream.write(respond(&buffer, &conn)).
Respond ==
    /\ http.response = "none"
    /\ http' = [http EXCEPT !.response = respond(http.buffer, db)]
    /\ UNCHANGED <<framingVars, serverVars, bcast, snd, tls, db, login, cursor>>

NextVerify == Respond

SpecVerify == InitVerify /\ [][NextVerify]_vars

-----------------------------------------------------------------------------
\* SpecSession: the two servers on the user store they share. The auth
\* server handles login requests (on_login_req), the verification server
\* handles verification requests, in any order.

MaxKey == 1         \* the random numbers rand::random() returns are 0..MaxKey
KeyDigits == 2      \* hex digits a session key is formatted to

HexDigits ==
    <<"0", "1", "2", "3", "4", "5", "6", "7", "8", "9", "a", "b", "c", "d", "e", "f">>

\* format!("{:032x}", new_session_key), with KeyDigits digits.
RECURSIVE Format(_, _)
Format(n, width) ==
    IF width = 0 THEN <<>>
    ELSE Append(Format(n \div 16, width - 1), HexDigits[(n % 16) + 1])

\* The user names of login requests: those of the store and another one.
LoginNames == UserNames \cup {<<"w">>}

Passwords == {"pw", "other"}

\* The session key a row holds before any login: the column is a String,
\* and the program never writes it but in on_login_req. It is the empty
\* text, or a text no request path can carry.
InitialKeys == {<<>>, <<"SP">>}

\* MsgCallback::on_login_req. updated and replied tell whether the update of
\* the store and the write of the reply succeed; an Err of either is
\* unwrapped and panics.
on_login_req(username, password, random, store, updated, replied) ==
    LET invalid == [store |-> store, reply |-> "InvalidUsernamePassword",
                    key |-> <<>>, panic |-> ~replied]
    IN  IF username \notin DOMAIN store.rows THEN invalid
        ELSE IF store.rows[username].password # password THEN invalid
        ELSE LET new_session_key == Format(random, KeyDigits)
             IN  IF ~updated
                 THEN [store |-> store, reply |-> "none", key |-> <<>>, panic |-> TRUE]
                 ELSE [store |-> [store EXCEPT
                                    !.rows[username].session_key = new_session_key],
                       reply |-> "Ok", key |-> new_session_key, panic |-> ~replied]

\* The buffer of the verification request for a user name and a key.
Request(username, key) ==
    join(<<GET, <<"/">> \o join(<<VERIFY, username, key>>, "/"), VERSION>>, "SP")
        \o <<"LF", "NUL">>

\* The keys verification requests ask about: the empty one and those
\* on_login_req can issue.
AskedKeys == {<<>>} \cup {Format(n, KeyDigits) : n \in 0..MaxKey}

InitSession ==
    /\ db \in {[rows |-> [name \in UserNames |->
                            [password |-> "pw", session_key |-> key]],
                up |-> TRUE] : key \in InitialKeys}
    /\ login = [current |-> [name \in UserNames |-> "none"],
                last |-> [username |-> <<>>, reply |-> "none"],
                tick |-> 0, dead |-> FALSE]
    /\ http = [buffer |-> <<>>, username |-> <<>>, sess_key |-> <<>>,
               response |-> "none", tick |-> 0]
    /\ cursor = <<>>
    /\ tls = <<>>
    /\ bcast = <<>>
    /\ snd = <<>>
    /\ conns = <<>>
    /\ i = 0
    /\ close_conn = FALSE
    /\ pc = "session"
    /\ backlog = <<>>
    /\ sock = <<>>
    /\ peer = <<>>
    /\ nmsgs = 0
    /\ visited = <<>>
    /\ startIds = {}
    /\ drain = <<>>
    /\ lastIter = "none"
    /\ owed = {}
    /\ packet = NewPacket
    /\ tcp = <<>>
    /\ wire = <<>>
    /\ sent = 0
    /\ frames = <<>>
    /\ got = <<>>
    /\ ret = [kind |-> "none", err |-> "", data |-> <<>>, left |-> 0]
    /\ carried = FALSE

\* The auth server handles a login request. A panic of the listener ends
\* the process, and with it both servers.
LoginCall ==
    /\ ~login.dead
    /\ \E username \in LoginNames, password \in Passwords, random \in 0..MaxKey,
          updated \in BOOLEAN, replied \in BOOLEAN :
        LET out == on_login_req(username, password, random, db, updated, replied)
        IN  /\ db' = out.store
            /\ login' = [current |-> IF out.store # db \/ out.reply = "Ok"
                                     THEN [login.current EXCEPT ![username] = out.key]
                                     ELSE login.current,
                         last |-> [username |-> username, reply |-> out.reply],
                         tick |-> 1 - login.tick,
                         dead |-> out.panic]
    /\ UNCHANGED <<framingVars, serverVars, bcast, snd, tls, http, cursor>>

\* The verification server handles a request.
VerifyCall ==
    /\ ~login.dead
    /\ \E username \in UserNames, key \in AskedKeys :
        LET buffer == Request(username, key)
        IN  http' = [buffer |-> buffer, username |-> username, sess_key |-> key,
                     response |-> respond(buffer, db), tick |-> 1 - http.tick]
    /\ UNCHANGED <<framingVars, serverVars, bcast, snd, tls, db, login, cursor>>

NextSession ==
    \/ LoginCall
    \/ VerifyCall

SpecSession == InitSession /\ [][NextSession]_vars

-----------------------------------------------------------------------------
\* SpecCursor: the Context under the loops of iteration(), with the check
\* of the outer while and the turns of the inner loop as steps of their
\* own. A connection is an id; what its stream holds is the number of whole
\* frames the server can read from it in this pass.

MaxCur == 3         \* connections that are ever pushed (SpecCursor)
MaxAvail == 2       \* most frames a stream holds when a pass starts (SpecCursor)

CurIds == 1..MaxCur

\* Context::get / get_mut: conns.get_unchecked(i). Out of bounds the
\* behaviour is undefined: ok is false and the connection is none.
get(cs, k) ==
    IF 0 <= k /\ k < Len(cs) THEN [ok |-> TRUE, id |-> cs[k + 1]]
    ELSE [ok |-> FALSE, id |-> 0]

\* The errors receive() returns: would-block with no whole frame to read,
\* InvalidData for a frame that is no message, and the io errors.
RecvErrors == {"WouldBlock", "ConnectionReset", "Other", "InvalidData"}

\* What is left of the Context when a listener panics: the process ends.
CurPanicked(c) ==
    [c EXCEPT !.pc = "panicked", !.conns = <<>>, !.i = 0, !.close_conn = FALSE]

InitCursor ==
    /\ cursor = [conns |-> <<>>, i |-> 0, close_conn |-> FALSE, pc |-> "accept",
                 pushed |-> 0, avail |-> [id \in CurIds |-> 0],
                 closes |-> 0, oob |-> FALSE]
    /\ tls = <<>>
    /\ http = <<>>
    /\ db = <<>>
    /\ login = <<>>
    /\ bcast = <<>>
    /\ snd = <<>>
    /\ conns = <<>>
    /\ i = 0
    /\ close_conn = FALSE
    /\ pc = "cursor"
    /\ backlog = <<>>
    /\ sock = <<>>
    /\ peer = <<>>
    /\ nmsgs = 0
    /\ visited = <<>>
    /\ startIds = {}
    /\ drain = <<>>
    /\ lastIter = "none"
    /\ owed = {}
    /\ packet = NewPacket
    /\ tcp = <<>>
    /\ wire = <<>>
    /\ sent = 0
    /\ frames = <<>>
    /\ got = <<>>
    /\ ret = [kind |-> "none", err |-> "", data |-> <<>>, left |-> 0]
    /\ carried = FALSE

CurUnchanged ==
    UNCHANGED <<framingVars, serverVars, bcast, snd, tls, http, db, login>>

\* The accept loop: accept() returned a stream and the connection is pushed.
\* The peer has written some frames already.
CurPush ==
    /\ cursor.pc = "accept"
    /\ cursor.pushed < MaxCur
    /\ \E n \in 0..MaxAvail :
        LET id == cursor.pushed + 1
        IN  cursor' = [cursor EXCEPT !.conns = Append(cursor.conns, id),
                                     !.pushed = id, !.avail[id] = n]
    /\ CurUnchanged

\* accept() returned an error: the accept loop ends and Context::reset
\* starts the pass.
CurReset ==
    /\ cursor.pc = "accept"
    /\ cursor' = [cursor EXCEPT !.i = 0, !.pc = "while"]
    /\ CurUnchanged

\* while self.ctx.can_advance()
CurWhile ==
    /\ cursor.pc = "while"
    /\ cursor' = [cursor EXCEPT
                    !.pc = IF can_advance(cursor.conns, cursor.i) THEN "loop"
                           ELSE "sleep"]
    /\ CurUnchanged

\* One turn of the inner loop: receive() on the active connection, then the
\* callback, which may call close_conn and may panic, or the break on an
\* error. With the cursor out of bounds anything can happen: the turn goes
\* on as if a connection were there, or the process ends.
CurReceive ==
    /\ cursor.pc = "loop"
    /\ LET c == get(cursor.conns, cursor.i)
       IN  IF ~c.ok
           THEN \/ cursor' = [CurPanicked(cursor) EXCEPT !.oob = TRUE]
                \/ cursor' = [cursor EXCEPT !.oob = TRUE, !.pc = "advance"]
           ELSE \/ /\ cursor.avail[c.id] > 0
                   /\ \E closes \in BOOLEAN, panics \in BOOLEAN :
                        cursor' =
                            IF panics THEN CurPanicked(cursor)
                            ELSE [cursor EXCEPT
                                    !.avail[c.id] = @ - 1,
                                    !.close_conn = IF closes THEN ctx_close_conn(@)
                                                   ELSE @,
                                    !.closes = @ + (IF closes THEN 1 ELSE 0),
                                    !.pc = IF LoopBreaks(TRUE) THEN "advance"
                                           ELSE "loop"]
                \/ \E e \in RecvErrors :
                    /\ e = "WouldBlock" => cursor.avail[c.id] = 0
                    /\ e = "InvalidData" => cursor.avail[c.id] > 0
                    /\ cursor' =
                        [cursor EXCEPT
                            !.avail[c.id] = IF e = "InvalidData" THEN @ - 1 ELSE @,
                            !.close_conn = IF IsHardError(e) THEN ctx_close_conn(@)
                                           ELSE @,
                            !.closes = @ + (IF IsHardError(e) THEN 1 ELSE 0),
                            !.pc = IF LoopBreaks(FALSE) THEN "advance" ELSE "loop"]
    /\ CurUnchanged

\* self.ctx.advance() after the inner loop.
CurAdvance ==
    /\ cursor.pc = "advance"
    /\ LET a == advance(cursor.conns, cursor.i, cursor.close_conn)
       IN  cursor' = [cursor EXCEPT !.conns = a.conns, !.i = a.i,
                                    !.close_conn = a.close_conn,
                                    !.closes = 0, !.pc = "while"]
    /\ CurUnchanged

\* The sleep at the end of iteration(); run() starts the next one. The
\* peers have written meanwhile.
CurSleep ==
    /\ cursor.pc = "sleep"
    /\ \E more \in [CurIds -> 0..MaxAvail] :
        cursor' = [cursor EXCEPT
                    !.pc = "accept",
                    !.avail = [id \in CurIds |->
                                IF \E k \in 1..Len(cursor.conns) : cursor.conns[k] = id
                                THEN more[id] ELSE 0]]
    /\ CurUnchanged

NextCursor ==
    \/ CurPush
    \/ CurReset
    \/ CurWhile
    \/ CurReceive
    \/ CurAdvance
    \/ CurSleep

SpecCursor == InitCursor /\ [][NextCursor]_vars

\* The server thread is scheduled; the peers write between the passes.
SpecCursorLive == InitCursor /\ [][NextCursor]_vars /\ WF_vars(NextCursor)

-----------------------------------------------------------------------------
\* Claims about the framing (SpecFraming).

\* A step of SpecFraming that is a receive_raw call.
IsCall == sent' = sent

\* The next frame, number Len(got) + 1, is completely written by the peer.
NextFrameComplete ==
    /\ Len(got) < Len(frames)
    /\ sent >= FrameEnd(frames, Len(got) + 1)

\* C1: framing round trip. Whatever the chunks the peer writes a frame in,
\* and whatever calls happen in between, a receive_raw call returns
\* would-block as long as the next frame is not completely there, and the
\* call that finds it complete returns exactly its payload, once: the
\* payloads returned are the payloads framed, in order.
C1_RoundTrip ==
    [][IsCall =>
        IF NextFrameComplete
        THEN /\ ret'.kind = "ok"
             /\ ret'.data = frames[Len(got) + 1]
             /\ got' = Append(got, frames[Len(got) + 1])
        ELSE /\ ret'.kind = "err"
             /\ ret'.err = "WouldBlock"
             /\ got' = got]_vars

\* A payload of 2 bytes was returned after a call had found only a part of
\* its body, and an empty payload was returned as well.
C1_Witness ==
    /\ Len(got) = 2
    /\ Len(got[1]) = 2
    /\ got[2] = <<>>
    /\ got = frames
    /\ ret.kind = "ok"

\* C2: as long as fewer than 4 bytes of the length prefix of the next frame
\* are written, a call returns would-block and no payload, and it holds the
\* prefix bytes written so far at their offsets; a payload returned has the
\* length that the 4 prefix bytes of its frame encode.
C2_PartialPrefix ==
    [][IsCall =>
        LET start == FrameEnd(frames, Len(got))
        IN  /\ (sent < start + LengthBytes) =>
                /\ ret'.kind = "err"
                /\ ret'.err = "WouldBlock"
                /\ got' = got
                /\ packet'.reading_length
                /\ packet'.offset = sent - start
                /\ Take(packet'.length, sent - start) = SubSeq(wire, start + 1, sent)
            /\ (ret'.kind = "ok" /\ got' # got) =>
                Len(ret'.data) =
                    from_le_bytes(SubSeq(wire, start + 1, start + LengthBytes))]_vars

\* A call has returned would-block holding 2 of the 4 prefix bytes of the
\* second frame.
C2_Witness ==
    /\ ret.kind = "err"
    /\ packet.reading_length
    /\ packet.offset = 2
    /\ Len(got) = 1
    /\ Len(frames) = 2
    /\ Len(frames[2]) > 0

\* C3: consecutive frames. The bytes read from the socket are exactly the
\* frames returned plus the part of the next frame held in the BufferOffset,
\* so the call that returns a payload reads no byte of the frame behind it;
\* the socket holds the bytes written and not read, in order; a call returns
\* would-block only with the socket drained; the payloads returned are the
\* first frames of the stream, in order.
C3_Consecutive ==
    LET k == Len(got)
        read == sent - Len(tcp)
    IN  /\ k <= Len(frames)
        /\ got = Take(frames, k)
        /\ tcp = SubSeq(wire, read + 1, sent)
        /\ read = FrameEnd(frames, k)
                    + (IF packet.reading_length THEN packet.offset
                       ELSE LengthBytes + packet.offset)
        /\ ret.kind = "ok" => (k >= 1 /\ ret.data = frames[k] /\ packet = TakeBuffer(packet))
        /\ ret.kind = "err" => (ret.err = "WouldBlock" /\ ret.left = 0)

\* The call that returned the first payload left bytes of the second frame
\* in the socket, and the second payload was returned by a later call.
C3_Witness ==
    /\ carried
    /\ Len(got) = 2
    /\ ret.kind = "ok"

-----------------------------------------------------------------------------
\* Claims about the pool and the event loop (SpecPool, Spec).

Range(f) == {f[k] : k \in DOMAIN f}

\* C4: one pass visits every connection once. No connection is made active
\* twice in a pass; the connections of the pool at the start of the pass
\* not yet made active are exactly those behind the cursor; when the pass
\* is over (can_advance is false) they have all been made active.
C4_PassVisitsOnce ==
    /\ \A a, b \in 1..Len(visited) : a # b => visited[a] # visited[b]
    /\ Range(visited) \subseteq startIds
    /\ pc \in {"poll", "advance"} =>
        /\ startIds \ Range(visited) = {conns[k].id : k \in (i + 2)..Len(conns)}
        /\ can_advance(conns, i) => visited[Len(visited)] = Active.id
    /\ pc = "sleep" => Range(visited) = startIds

\* A pass over 3 connections is over in which the first one was removed and
\* then the one swapped into its place (the last one): two removals in a
\* row, and the connection from the middle was visited last and stays.
C4_Witness ==
    /\ pc = "sleep"
    /\ visited = <<1, 3, 2>>
    /\ Ids(conns) = {2}

\* What broadcast wrote on the stream of connection id.
BroadcastWrote(id) ==
    IF Len(sock'[id].tx) >= Len(sock[id].tx)
       /\ Take(sock'[id].tx, Len(sock[id].tx)) = sock[id].tx
    THEN Drop(sock'[id].tx, Len(sock[id].tx)) ELSE <<-1>>

\* C6: in broadcast a write that fails on one connection leaves the others
\* alone. If the message does not serialize nothing is written to any
\* connection; if it does, every connection whose write does not fail is
\* written to: the length prefix of the frame and payload bytes after it
\* (how many of them is the matter of C7).
C6_BroadcastWriteIndependent ==
    [][bcast' # bcast =>
        IF bcast'.ser = "err" THEN sock' = sock /\ bcast'.res = "err"
        ELSE \A id \in Ids(conns) \ bcast'.fails :
                /\ Len(BroadcastWrote(id)) > LengthBytes
                /\ Take(BroadcastWrote(id), LengthBytes) = to_le_bytes(Len(bcast'.data))]_vars

\* C7: broadcast serializes the message once whatever the size of the pool,
\* leaves the cursor and the flag as they are, and if no write fails every
\* connection of the pool is given the same frame: the length prefix and
\* the whole serialized message.
C7_BroadcastSameFrame ==
    [][bcast' # bcast =>
        /\ bcast'.serialized = 1
        /\ i' = i /\ close_conn' = close_conn /\ conns' = conns
        /\ (bcast'.ser = "ok" /\ bcast'.fails = {}) =>
                \A id \in Ids(conns) : BroadcastWrote(id) = Frame(bcast'.data)]_vars

\* C5: close_conn only marks the active connection. A step in which
\* close_conn is called, for the first time or again, leaves the flag set,
\* the pool and the cursor as they are; with the flag set a reply of a
\* listener still goes to the active connection and to no other; the pool
\* loses a connection only in advance, and then exactly the active one if
\* the flag is set and none if it is not.
C5_CloseOnlyMarks ==
    [][/\ drain'.closes > drain.closes =>
            (close_conn' /\ i' = i /\ Len(conns') = Len(conns)
             /\ \A k \in 1..Len(conns) : conns'[k].id = conns[k].id)
       /\ (pc = "poll" /\ pc' = "poll" /\ close_conn /\ can_advance(conns, i)) =>
            /\ close_conn'
            /\ Active'.id = Active.id
            /\ \A j \in Peers \ {Active.id} : sock'[j] = sock[j]
            /\ drain'.sentClosed /\ ~drain.sentClosed => sock'[Active.id].tx # <<>>
       /\ (pc # "advance" /\ pc' # "panicked") => Ids(conns) \subseteq Ids(conns')
       /\ pc = "advance" =>
            IF close_conn THEN /\ Ids(conns') = Ids(conns) \ {Active.id}
                               /\ Len(conns') = Len(conns) - 1
            ELSE conns' = conns]_vars

\* The drain of a connection is over in which close_conn was called twice
\* and a reply was sent to the connection after the first call; another
\* connection is in the pool.
C5_Witness ==
    /\ pc = "advance"
    /\ drain.closes = 2
    /\ drain.sentClosed
    /\ close_conn
    /\ Len(conns) >= 2

\* C8: a connection that fails to be accepted or set up does not keep the
\* others out. iteration() never returns an error to run() (which would be
\* before its poll pass), and when the accept loop is over every connection
\* that waited when the iteration started and whose handshake succeeds has
\* been pushed.
C8_AcceptFailureIsolated ==
    /\ lastIter # "err"
    /\ pc \in {"poll", "advance", "sleep"} => owed = {}

\* C9: the errors of a connection stay with it. Whatever a turn of the
\* inner loop meets on the active connection, the loop goes on (to the next
\* receive or to advance) and no connection leaves the pool in that turn.
C9_ErrorsConnectionScoped ==
    [][(pc = "poll" /\ can_advance(conns, i)) =>
            (pc' \in {"poll", "advance"} /\ Ids(conns') = Ids(conns))]_vars

\* C10: what the loop does with the error of receive(). Would-block (the
\* stream is open or shut down in order and holds no whole frame) is not
\* printed and does not set the flag; a reset is not printed and sets the
\* flag; any other io error and a payload that is no message are printed and
\* set the flag. With the flag set the connection is out of the pool after
\* the advance that follows.
C10_ReceiveOutcome ==
    [][/\ (pc = "poll" /\ pc' = "advance") =>
            LET e == drain'.recv
                s == sock[Active.id]
            IN  /\ e = "WouldBlock" =>
                    /\ s.link \in {"open", "eof"}
                    /\ ~drain'.logged
                    /\ close_conn' = close_conn
                    /\ drain'.closes = drain.closes
                /\ e = "ConnectionReset" =>
                    (s.link = "reset" /\ ~drain'.logged /\ close_conn')
                /\ e = "Other" => (s.link = "broken" /\ drain'.logged /\ close_conn')
                /\ e = "InvalidData" =>
                    /\ Len(sock'[Active.id].rx) < Len(s.rx)
                    /\ drain'.logged
                    /\ close_conn'
                /\ e \in {"WouldBlock", "ConnectionReset", "Other", "InvalidData"}
                /\ s.link = "reset" /\ s.rx = <<>> => e = "ConnectionReset"
                /\ s.link = "broken" /\ s.rx = <<>> => e = "Other"
                /\ s.link \in {"open", "eof"} /\ s.rx = <<>> => e = "WouldBlock"
       /\ (pc = "advance" /\ close_conn) => Active.id \notin Ids(conns')]_vars

\* The drain of a connection has ended with a payload that is no message:
\* the error was printed and the flag is set; another connection is in the
\* pool.
C10_Witness ==
    /\ pc = "advance"
    /\ drain.recv = "InvalidData"
    /\ drain.logged
    /\ close_conn
    /\ Len(conns) >= 2

\* C11: a peer that has disconnected disappears from the pool. Once the
\* peer of a pooled connection has reset it or shut it down in order (every
\* read then reports zero bytes), the connection is removed from the pool
\* in the end.
C11_DisconnectedRemoved ==
    \A id \in 1..MaxPeers :
        (peer[id] = "accepted" /\ sock[id].link \in {"eof", "reset"})
            ~> (id \notin Ids(conns))

\* A whole frame is there for receive(): the bytes of the stream q complete
\* the frame the BufferOffset p is in the middle of, or hold a whole one.
FrameAvailable(p, q) ==
    IF p.reading_length
    THEN LET need == Len(p.length) - p.offset
         IN  /\ Len(q) >= need
             /\ Len(q) - need >=
                    from_le_bytes(Take(p.length, p.offset) \o Take(q, need))
    ELSE Len(q) >= Len(p.buffer) - p.offset

\* A turn of the inner loop that calls the callback: receive() has taken
\* bytes from the stream and returned no error, and the callback returns.
Dispatch ==
    /\ InDrain
    /\ pc' \in {"poll", "advance"}
    /\ drain'.recv = "none"
    /\ Len(sock'[Active.id].rx) < Len(sock[Active.id].rx)

\* The order and the place of the calls of the callback in a pass: each
\* call is for the oldest frame in the stream of the active connection and
\* touches no other stream nor the cursor, the active connection appears
\* once among the connections visited in the pass, and the drain goes on
\* while DrainOn says so.
DrainOrder(DrainOn) ==
    /\ Dispatch =>
        /\ sock[Active.id].rx = Frame(drain'.last) \o sock'[Active.id].rx
        /\ i' = i /\ visited' = visited
        /\ Active'.id = Active.id
        /\ \A j \in Peers \ {Active.id} : sock'[j] = sock[j]
        /\ \A a \in 1..(Len(visited) - 1) : visited[a] # Active.id
    /\ (InDrain /\ pc' = "advance" /\ DrainOn) =>
        ~FrameAvailable(Active'.packet, sock'[Active.id].rx)

\* C12 as stated: within a pass the callback is called for the messages of
\* one connection in the order of their frames, with no call for another
\* connection in between, and the cursor advances only when no whole frame
\* of the active connection is left in its stream.
C12_DrainedInOrder == [][DrainOrder(TRUE)]_vars

\* C12 amended: the same, but a drain that receive() ends with an error
\* other than would-block (a reset, another io error, a frame that is no
\* message), which closes the connection, may leave whole frames behind.
C12_DrainedInOrderUnlessClosed ==
    [][DrainOrder(drain'.recv \notin {"ConnectionReset", "Other", "InvalidData"})]_vars

\* The callback has been called for the ping and for the handshake of the
\* second connection of a pool of 3, one after the other, and its drain has
\* ended with would-block.
C12_Witness ==
    /\ pc = "advance"
    /\ Cardinality(startIds) = 3
    /\ i = 1
    /\ can_advance(conns, i)
    /\ drain.last = <<3>>
    /\ drain.recv = "WouldBlock"
    /\ sock[Active.id].rx = <<>>

\* C13: send_raw gives the stream whole frames only. A call that returns
\* Ok has written the 4 bytes of the length of the data and then all of the
\* data; a call that returns an error has left nothing of a frame on the
\* stream.
C13_WholeFrameOrNothing ==
    [][snd' # snd =>
        LET wrote == Drop(sock'[Active.id].tx, Len(sock[Active.id].tx))
        IN  IF snd'.res = "ok" THEN wrote = Frame(snd'.data) ELSE wrote = <<>>]_vars

-----------------------------------------------------------------------------
\* Claims about the tls build (SpecTls, SpecTlsLive).

\* A step of SpecTls that is a round of the loop of Transport::from.
FromRound == tls.pc = "handshake" /\ tls'.pc # "handshake"

\* C15: construction of the encrypted transport. A round of the handshake
\* loop whose complete_io returns WouldBlock is followed by the sleep and
\* then by another round on the same stream; the loop is left only with
\* the handshake complete or on an error that is not WouldBlock; such an
\* error is what Transport::from returns, and the stream is not pooled;
\* every pooled stream, and so every stream application data was read
\* from, has completed its handshake.
C15_HandshakeBeforeTransport ==
    [][/\ FromRound =>
            /\ tls'.last = "WouldBlock" <=> tls'.pc = "nap"
            /\ tls'.pc = "nap" => tls'.cur = tls.cur /\ tls'.res = tls.res
            /\ tls'.pc # "nap" =>
                    /\ tls'.res.peer = tls.cur
                    /\ \/ /\ tls'.res.kind = "Ok"
                          /\ tls'.last = "Ok"
                          /\ ~is_handshaking(tls'.peer[tls.cur].sess)
                          /\ tls'.peer[tls.cur].st = "pooled"
                       \/ /\ tls'.res.kind = "Err"
                          /\ tls'.res.err = tls'.last
                          /\ tls'.last \notin {"WouldBlock", "Ok", "none"}
                          /\ tls'.peer[tls.cur].st = "failed"
       /\ (tls.pc = "nap" /\ tls'.pc # "nap") =>
            (tls'.pc = "handshake" /\ tls'.cur = tls.cur)
       /\ \A p \in TlsPeers :
            /\ (tls'.peer[p].st = "pooled" \/ tls'.peer[p].got > 0) =>
                    ~is_handshaking(tls'.peer[p].sess)
            /\ tls'.peer[p].st = "failed" =>
                    \A k \in 1..Len(tls'.conns) : tls'.conns[k] # p
            /\ tls'.peer[p].got # tls.peer[p].got => tls.peer[p].st = "pooled"
      ]_vars

\* C15 witness: one stream was pooled after its handshake loop had slept
\* and retried, and application data was read from it; the construction of
\* another one was aborted by an error.
C15_Witness ==
    /\ tls # <<>>
    /\ \E p, q \in TlsPeers :
        /\ tls.peer[p].retried
        /\ tls.peer[p].got > 0
        /\ ~is_handshaking(tls.peer[p].sess)
        /\ tls.peer[q].st = "failed"
        /\ tls.res = [peer |-> q, kind |-> "Err", err |-> "UnexpectedEof"]

\* A record of application data waits on a pooled stream.
TlsDataWaits(p) ==
    /\ tls.peer[p].st = "pooled"
    /\ tls.peer[p].rx # <<>>
    /\ Head(tls.peer[p].rx) = "data"

\* C16: a peer that does not complete its handshake stalls no one else.
\* Whatever the other peers do, and also while one of them stays silent in
\* its handshake, a stream that waits in the listener is eventually
\* accepted, and a record that waits on a pooled stream is eventually
\* dispatched.
C16_SilentPeerStallsOnlyItself ==
    \A p \in TlsPeers :
        /\ (tls.peer[p].st = "queued") ~> (tls.peer[p].st # "queued")
        /\ TlsDataWaits(p) ~> ~TlsDataWaits(p)

-----------------------------------------------------------------------------
\* Claims about the server loop and the listeners (Spec).

\* C17: run() never stops. The server thread is always somewhere in an
\* iteration (accepting, polling, advancing or sleeping): nothing that
\* happens while a message is accepted, received, decoded, handled or
\* replied to ends the loop.
C17_RunNeverStops == pc \in {"accept", "poll", "advance", "sleep"}

\* C18: silent closure after a protocol violation. The listener of a
\* connection request with a wrong password, or of a handshake with a wrong
\* network version, writes no reply and calls close_conn; once the flag is
\* set for the active connection no reply to a later message is written to
\* it; and the advance that follows removes it from the pool.
C18_SilentClosure ==
    [][/\ (InDrain /\ drain'.recv = "none" /\ drain'.closes > drain.closes) =>
            (close_conn' /\ sock'[Active.id].tx = <<>>)
       /\ (InDrain /\ close_conn /\ pc' # "panicked") =>
            sock'[Active.id].tx = <<>>
       /\ (pc = "advance" /\ close_conn) => Active.id \notin Ids(conns')]_vars

-----------------------------------------------------------------------------
\* Claims about the verification endpoint (SpecVerify).

\* The first line of the buffer: the bytes before the first LF.
FirstLine(buffer) == split(buffer, "LF")[1]

\* The first line is GET /verify/{username}/{session_key} HTTP/1.1 (and
\* the CR that ends an HTTP line); username and session_key hold no "/".
OfTheForm(line) ==
    \E u, k \in Segs :
        line = join(<<GET, <<"/">> \o join(<<VERIFY, u, k>>, "/"), VERSION>>, "SP")

\* C19: the verification endpoint answers every buffer with one of its four
\* responses: 400 exactly if the first line is not of the form
\* GET /verify/{username}/{session_key} HTTP/1.1, an empty or missing path
\* included; otherwise 500 if the lookup fails, 200 with 1 if the pair is in
\* the store and 200 with 0 if it is not.
C19_FourResponses ==
    http.response # "none" =>
        LET line == FirstLine(http.buffer)
        IN  /\ http.response \in {"HTTP/1.1 400", "HTTP/1.1 500",
                                  "HTTP/1.1 200 1", "HTTP/1.1 200 0"}
            /\ http.response = "HTTP/1.1 400" <=> ~OfTheForm(line)
            /\ (OfTheForm(line) /\ ~db.up) => http.response = "HTTP/1.1 500"
            /\ (OfTheForm(line) /\ db.up) =>
                    \E u, k \in Segs :
                        /\ line = join(<<GET, <<"/">> \o join(<<VERIFY, u, k>>, "/"),
                                         VERSION>>, "SP")
                        /\ http.response =
                                IF u \in DOMAIN db.rows /\ db.rows[u].session_key = k
                                THEN "HTTP/1.1 200 1" ELSE "HTTP/1.1 200 0"

-----------------------------------------------------------------------------
\* Claims about the session keys (SpecSession).

-----------------------------------------------------------------------------
\* Claims about the reassembly buffer (SpecFraming).

\* The bytes a receive_raw call has taken from the socket.
Consumed == Len(tcp) - Len(tcp')

\* C22: the reassembly buffer. After every receive_raw call the offset is
\* at most the length of the buffer being filled: the 4 bytes of the prefix
\* in length mode, the decoded body length in body mode. The mode changes
\* only with the buffer full and the offset starts again at 0: a call that
\* leaves length mode has taken the rest of the prefix, and what it took
\* beyond that is the new offset in the body; a call that returns a payload
\* has taken the rest of the body, and leaves length mode, offset 0 and an
\* empty body buffer.
C22_BufferInvariant ==
    [][IsCall =>
        /\ packet'.offset >= 0
        /\ packet'.reading_length => packet'.offset <= Len(packet'.length)
        /\ ~packet'.reading_length =>
                /\ Len(packet'.buffer) = from_le_bytes(packet'.length)
                /\ packet'.offset <= Len(packet'.buffer)
        /\ ret'.kind = "ok" =>
                /\ packet'.reading_length
                /\ packet'.offset = 0
                /\ packet'.buffer = <<>>
                /\ Consumed = IF packet.reading_length
                              THEN Len(packet.length) - packet.offset + Len(ret'.data)
                              ELSE Len(packet.buffer) - packet.offset
                /\ ~packet.reading_length => Len(ret'.data) = Len(packet.buffer)
        /\ ret'.kind = "err" =>
                /\ packet'.reading_length => packet.reading_length
                /\ packet'.reading_length = packet.reading_length =>
                        /\ packet'.offset = packet.offset + Consumed
                        /\ Len(packet'.buffer) = Len(packet.buffer)
                /\ (packet.reading_length /\ ~packet'.reading_length) =>
                        Consumed = Len(packet.length) - packet.offset + packet'.offset
      ]_vars

\* C22 witness: a payload was returned before, and the last call has left
\* length mode and stopped with a part of the body read.
C22_Witness ==
    /\ pc = "off"
    /\ got # <<>>
    /\ ret.kind = "err"
    /\ ~packet.reading_length
    /\ packet.offset > 0
    /\ packet.offset < Len(packet.buffer)

-----------------------------------------------------------------------------
\* Claims about the cursor (SpecCursor, SpecCursorLive).

\* C21: the cursor is in bounds wherever the active connection is used.
\* In a turn of the inner loop (receive, and the callback with its send,
\* peer_addr and local_addr) and at the advance that follows, 0 <= i and
\* i < conns.len(), in passes that remove connections and in passes over an
\* empty pool; no access was ever out of bounds.
C21_CursorInBounds ==
    cursor # <<>> =>
        /\ ~cursor.oob
        /\ cursor.pc \in {"loop", "advance"} =>
                (0 <= cursor.i /\ cursor.i < Len(cursor.conns))

\* C21 witness: a connection was removed in this pass, the one swapped into
\* its place is being drained, and it is the last of the pool.
C21_Witness ==
    /\ cursor # <<>>
    /\ cursor.pc = "loop"
    /\ cursor.pushed = 3
    /\ Len(cursor.conns) = 2
    /\ cursor.i = 1
    /\ cursor.conns[2] = 2
    /\ cursor.conns[1] = 3

\* The distance of the cursor from the end of the pool.
Measure(c) == Len(c.conns) - c.i

\* C25: a poll pass terminates. During a pass the pool does not grow, and
\* every advance makes conns.len() - i smaller by one: it removes the active
\* connection and leaves the cursor, or it moves the cursor by one. With
\* finitely many frames to read in the pass, every drain ends and the pass
\* reaches a state in which can_advance is false.
C25_PassTerminates ==
    /\ [][/\ cursor.pc \in {"while", "loop", "advance"} =>
                Len(cursor'.conns) <= Len(cursor.conns)
          /\ (cursor.pc = "advance" /\ cursor'.pc = "while") =>
                /\ Measure(cursor') = Measure(cursor) - 1
                /\ \/ /\ cursor'.i = cursor.i
                      /\ Len(cursor'.conns) = Len(cursor.conns) - 1
                   \/ /\ cursor'.i = cursor.i + 1
                      /\ cursor'.conns = cursor.conns]_vars
    /\ (cursor.pc = "loop") ~> (cursor.pc # "loop")
    /\ (cursor.pc \in {"while", "loop", "advance"})
            ~> (cursor.i >= Len(cursor.conns))

\* C25 witness: a pass over three connections is over; it removed one of
\* them and moved the cursor past the two others.
C25_Witness ==
    /\ cursor # <<>>
    /\ cursor.pc = "sleep"
    /\ cursor.pushed = 3
    /\ Len(cursor.conns) = 2
    /\ cursor.i = 2

-----------------------------------------------------------------------------
\* Claims about the pending-close flag and the sleep (Spec).

\* C23: the pending-close flag is false whenever the drain of a connection
\* starts (after reset and after every advance, with or without a removal)
\* and while an iteration accepts; and a connection leaves the pool only at
\* an advance, and only if close_conn was called in the drain of that very
\* connection that has just ended.
C23_FlagFalseAtDrainStart ==
    [][/\ (pc \in {"accept", "advance"} /\ pc' = "poll") =>
            (~close_conn' /\ drain' = NoDrain)
       /\ pc' = "accept" => ~close_conn'
       /\ (Ids(conns') # Ids(conns) /\ Len(conns') <= Len(conns)
           /\ pc' # "panicked") =>
            /\ pc = "advance"
            /\ drain.closes > 0
            /\ close_conn
            /\ Ids(conns') = Ids(conns) \ {Active.id}]_vars

\* C23 witness: a pass that started with two connections has removed one
\* of them and moved the cursor past the other; the flag is false.
C23_Witness ==
    /\ pc = "poll"
    /\ Cardinality(startIds) = 2
    /\ Len(conns) = 1
    /\ i = 1
    /\ drain = NoDrain
    /\ ~close_conn

\* A step in which iteration() returns to run(), which starts the next
\* iteration: after the sleep, or from the accept loop with an error.
IterationReturns ==
    /\ lastIter' \in {"ok", "err"}
    /\ pc' = "accept"
    /\ pc # "accept" \/ Len(backlog') < Len(backlog)

\* C24: every iteration sleeps. iteration() returns to run() only from its
\* sleep step, which comes after the poll pass, also when accepting a
\* connection, its handshake or its setup failed: the next iteration never
\* starts without the sleep.
C24_SleepEveryIteration == [][IterationReturns => pc = "sleep"]_vars

=============================================================================
